---------------------------- MODULE Spec2Model ----------------------------
(***************************************************************************)
(* Model of napalm_mos.mos.MOSDriver (src/napalm_mos/mos.py).              *)
(*                                                                         *)
(* One driver instance and one caller.  Every driver method is a           *)
(* synchronous call, so each method is one action: the action draws the    *)
(* call's argument and the executor's reaction from small sets, runs the   *)
(* method body and records the round trips the body made (sent) and how    *)
(* the call ended (outcome).                                               *)
(*                                                                         *)
(* Text is modelled at the grain the code reads it: a string the code      *)
(* matches character-wise (uptime, speed, rx state, power readings, LLDP   *)
(* detail lines) is a sequence of one-character strings; a text the code   *)
(* reads line-wise and token-wise (configuration, ARP table, NTP           *)
(* associations) is a sequence of lines, each a sequence of tokens.        *)
(***************************************************************************)
EXTENDS Integers, Sequences, FiniteSets, TLC

VARIABLES
    transport,  \* self.transport, fixed by the constructor
    device,     \* self.device: None or the session handle
    call,       \* the last call: method, argument, executor reaction
    sent,       \* the executor round trips made by the last call, in order
    outcome     \* how the last call ended: returned value or raised exception

vars == <<transport, device, call, sent, outcome>>

(***************************************************************************)
(* Bounds of the model.                                                    *)
(***************************************************************************)
MaxCmds == 2    \* longest command list handed to cli()
MaxIfaces == 2  \* most interfaces in a device payload

(***************************************************************************)
(* Generic helpers: Python values.                                         *)
(***************************************************************************)
None == 0

EmptyDict == <<>>

Put(d, k, v) == [x \in (DOMAIN d) \cup {k} |-> IF x = k THEN v ELSE d[x]]

Return(v) == [kind |-> "return", exc |-> "", value |-> v]

Raise(e, v) == [kind |-> "raise", exc |-> e, value |-> v]

Done(o, trips) == [out |-> o, sent |-> trips]

Trip(commands, encoding) == [commands |-> commands, encoding |-> encoding]

RECURSIVE SeqsUpTo(_, _)
SeqsUpTo(S, n) ==
    IF n = 0 THEN {<<>>}
    ELSE LET shorter == SeqsUpTo(S, n - 1)
         IN shorter \cup {Append(s, x) : s \in {t \in shorter : Len(t) = n - 1}, x \in S}

(***************************************************************************)
(* The names the module binds (imports and top-level definitions) and the  *)
(* builtins.  Evaluating any other name raises NameError.                  *)
(***************************************************************************)
ModuleNames ==
    {"print_function", "unicode_literals", "re", "timedelta", "EapiNode",
     "HttpsEapiConnection", "HttpEapiConnection", "ConnectionError",
     "napalm_base", "NetworkDriver", "string_parsers", "py23_compat",
     "ConnectionException", "TRANSPORTS", "MOSDriver"}

Builtins == {"TypeError", "Exception", "isinstance", "int", "float", "str", "zip", "iter"}

Resolves(name) == name \in ModuleNames \cup Builtins

TRANSPORTS == {"https", "http"}

\* values of optional_args['transport'] the driver is constructed with
TransportArgs == {"https", "ssh"}

\* pyeapi.eapilib: CommandError and ConnectionError derive from EapiError,
\* which derives from Exception, as do the builtin errors.
IsException(e) == e \in {"CommandError", "ConnectionError", "AttributeError",
                         "NameError", "TypeError", "KeyError", "ValueError",
                         "IndexError"}

(***************************************************************************)
(* The command executor (pyeapi Node.run_commands) is external: one call   *)
(* is one round trip, and it either returns one output per command or      *)
(* raises its command-kind or its connection-kind error.                   *)
(***************************************************************************)
ExecutorErrors == {"CommandError", "ConnectionError"}

Ok(output) == [kind |-> "ok", output |-> output]

Failed(e) == [kind |-> e, output |-> <<>>]

ExecutorFailures == {Failed(e) : e \in ExecutorErrors}

\* self.device.run_commands(...) where self.device may still be None
NoSession(dev) == dev = None

(***************************************************************************)
(* open / close / is_alive                                                 *)
(***************************************************************************)
OpenReactions == {"ok", "connect:ConnectionError", "probe:ConnectionError", "probe:CommandError"}

\* the connection object a call of open() constructs: a new object, distinct
\* from the session handle the driver holds
NewConnection(dev) == IF dev = None THEN 1 ELSE dev + 1

\* Variant of open that always takes the connection it has just constructed
\* as the session handle; C11 must tell it from open.
open_replacing(tr, dev, react) ==
    LET probe == Trip(<<"show version">>, "json")
        connection == NewConnection(dev)
    IN IF tr \notin TRANSPORTS
       THEN [out |-> Raise(IF Resolves("typeError") THEN "typeError" ELSE "NameError", <<>>),
             sent |-> <<>>, device |-> dev, connection |-> None]
       ELSE IF react = "connect:ConnectionError"
       THEN [out |-> Raise("ConnectionException", <<>>), sent |-> <<>>, device |-> dev,
             connection |-> None]
       ELSE IF react = "probe:ConnectionError"
       THEN [out |-> Raise("ConnectionException", <<>>), sent |-> <<probe>>,
             device |-> connection, connection |-> connection]
       ELSE IF react = "probe:CommandError"
       THEN [out |-> Raise("CommandError", <<>>), sent |-> <<probe>>,
             device |-> connection, connection |-> connection]
       ELSE [out |-> Return(None), sent |-> <<probe>>,
             device |-> connection, connection |-> connection]

\* the result carries the round trips, the new value of self.device and the
\* connection object the call constructed (None when it constructed none)
open(tr, dev, react) ==
    LET probe == Trip(<<"show version">>, "json")
        connection == NewConnection(dev)
        handle == IF dev = None THEN connection ELSE dev
    IN IF tr \notin TRANSPORTS
       THEN \* raise typeError(...): the name typeError is not bound
            [out |-> Raise(IF Resolves("typeError") THEN "typeError" ELSE "NameError", <<>>),
             sent |-> <<>>, device |-> dev, connection |-> None]
       ELSE IF react = "connect:ConnectionError"
       THEN [out |-> Raise("ConnectionException", <<>>), sent |-> <<>>, device |-> dev,
             connection |-> None]
       ELSE IF react = "probe:ConnectionError"
       THEN [out |-> Raise("ConnectionException", <<>>), sent |-> <<probe>>,
             device |-> handle, connection |-> connection]
       ELSE IF react = "probe:CommandError"
       THEN [out |-> Raise("CommandError", <<>>), sent |-> <<probe>>,
             device |-> handle, connection |-> connection]
       ELSE [out |-> Return(None), sent |-> <<probe>>,
             device |-> handle, connection |-> connection]

\* the call record of open and close keeps self.device as it was at entry
Open ==
    /\ \E react \in OpenReactions :
         LET r == open(transport, device, react)
         IN /\ call' = [op |-> "open",
                        arg |-> [held |-> device, connection |-> r.connection],
                        react |-> react]
            /\ device' = r.device
            /\ sent' = r.sent
            /\ outcome' = r.out
    /\ UNCHANGED transport

Close ==
    /\ call' = [op |-> "close", arg |-> [held |-> device], react |-> <<>>]
    /\ sent' = <<>>
    /\ outcome' = Return(None)
    /\ UNCHANGED <<transport, device>>

IsAlive ==
    /\ call' = [op |-> "is_alive", arg |-> <<>>, react |-> <<>>]
    /\ sent' = <<>>
    /\ outcome' = Return([is_alive |-> TRUE])
    /\ UNCHANGED <<transport, device>>

(***************************************************************************)
(* get_config / get_ntp_servers                                            *)
(*                                                                         *)
(* A configuration text is a sequence of lines, a line the sequence of its *)
(* space-separated tokens; the empty string is the text with no line.      *)
(***************************************************************************)
EmptyText == <<>>

ConfigTexts ==
    {EmptyText,
     << <<"hostname", "sw1">>, <<"ntp", "server", "10.0.0.1">> >>,
     << <<"ntp", "server", "a">>, <<"ntp", "serverx", "b">>,
        <<"!", "ntp", "server", "c">>, <<"ntp", "server", "10.0.0.1">> >>}

Retrieves == {"all", "running", "startup", "bogus", "candidate"}

ConfigReactions ==
    {Ok(<<s, r>>) : s \in ConfigTexts, r \in ConfigTexts} \cup ExecutorFailures

\* Variant of get_config that reads the two sections from each other's slot;
\* C4 must tell it from get_config.
get_config_swapped(dev, retrieve, react) ==
    LET get_startup == retrieve = "all" \/ retrieve = "startup"
        get_running == retrieve = "all" \/ retrieve = "running"
        commands == << IF get_startup THEN "show startup-config" ELSE "#",
                       IF get_running THEN "show running-config" ELSE "#" >>
        trip == Trip(commands, "text")
    IN IF NoSession(dev) THEN Done(Raise("AttributeError", <<>>), <<>>)
       ELSE IF react.kind # "ok" THEN Done(Raise(react.kind, <<>>), <<trip>>)
       ELSE Done(Return([startup |-> IF get_startup THEN react.output[2] ELSE EmptyText,
                         running |-> IF get_running THEN react.output[1] ELSE EmptyText,
                         candidate |-> EmptyText]),
                 <<trip>>)

get_config(dev, retrieve, react) ==
    LET get_startup == retrieve = "all" \/ retrieve = "startup"
        get_running == retrieve = "all" \/ retrieve = "running"
        commands == << IF get_startup THEN "show startup-config" ELSE "#",
                       IF get_running THEN "show running-config" ELSE "#" >>
        \* "if not get_startup and not get_running: Exception(...)" builds an
        \* exception object and drops it: nothing is raised, control goes on
        trip == Trip(commands, "text")
    IN IF NoSession(dev) THEN Done(Raise("AttributeError", <<>>), <<>>)
       ELSE IF react.kind # "ok" THEN Done(Raise(react.kind, <<>>), <<trip>>)
       ELSE Done(Return([startup |-> IF get_startup THEN react.output[1] ELSE EmptyText,
                         running |-> IF get_running THEN react.output[2] ELSE EmptyText,
                         candidate |-> EmptyText]),
                 <<trip>>)

GetConfig ==
    /\ \E retrieve \in Retrieves, react \in ConfigReactions :
         LET r == get_config(device, retrieve, react)
         IN /\ call' = [op |-> "get_config", arg |-> retrieve, react |-> react]
            /\ sent' = r.sent
            /\ outcome' = r.out
    /\ UNCHANGED <<transport, device>>

\* _RE_NTP_SERVERS = ^ntp server (?P<server>\S+), MULTILINE
RE_NTP_SERVERS_match(line) ==
    /\ Len(line) >= 3
    /\ line[1] = "ntp"
    /\ line[2] = "server"
    /\ line[3] # ""

RE_NTP_SERVERS_findall(config) ==
    {config[i][3] : i \in {j \in 1..Len(config) : RE_NTP_SERVERS_match(config[j])}}

\* Variant of get_ntp_servers that fetches the configuration twice; C9 must
\* tell it from get_ntp_servers.
get_ntp_servers_twice(dev, react) ==
    LET r == get_config(dev, "running", react)
    IN IF r.out.kind # "return" THEN r
       ELSE Done(Return([server \in RE_NTP_SERVERS_findall(r.out.value.running) |-> EmptyDict]),
                 r.sent \o r.sent)

get_ntp_servers(dev, react) ==
    LET r == get_config(dev, "running", react)
    IN IF r.out.kind # "return" THEN r
       ELSE Done(Return([server \in RE_NTP_SERVERS_findall(r.out.value.running) |-> EmptyDict]),
                 r.sent)

GetNtpServers ==
    /\ \E react \in ConfigReactions :
         LET r == get_ntp_servers(device, react)
         IN /\ call' = [op |-> "get_ntp_servers", arg |-> <<>>, react |-> react]
            /\ sent' = r.sent
            /\ outcome' = r.out
    /\ UNCHANGED <<transport, device>>

(***************************************************************************)
(* cli                                                                     *)
(***************************************************************************)
CliCommands == {"show clock", "bad_cmd"}

CliTexts == {"12:00:00"}

\* the device rejects a command it does not know; a command it knows gets its
\* text, unless the connection is lost
CliReactions(command) ==
    IF command = "bad_cmd" THEN {Failed("CommandError")}
    ELSE {Ok(t) : t \in CliTexts} \cup {Failed("ConnectionError")}

CliArgs ==
    {[type |-> "list", items |-> s] : s \in SeqsUpTo(CliCommands, MaxCmds)}
        \cup {[type |-> "str", items |-> <<"show clock">>]}

\* str(cli_output), the argument of the exception cli raises
Str(d) == [str |-> d]

\* what the except clauses of cli's try statement do with exception e raised
\* by the round trip of command
cli_except(command, e, cli_output) ==
    IF ~Resolves("pyeapi")
    THEN \* the clause "except pyeapi.eapilib.CommandError" evaluates an unbound name
         Raise("NameError", "pyeapi")
    ELSE IF e = "CommandError"
    THEN LET out == Put(cli_output, command, "Invalid command: \"" \o command \o "\"")
         IN IF Resolves("CommandErrorException")
            THEN Raise("CommandErrorException", Str(out))
            ELSE Raise("NameError", "CommandErrorException")
    ELSE IF IsException(e)
    THEN LET msg == "Unable to execute command \"" \o command \o "\": " \o e
             out == Put(cli_output, command, msg)
         IN IF Resolves("CommandErrorException")
            THEN Raise("CommandErrorException", Str(out))
            ELSE Raise("NameError", "CommandErrorException")
    ELSE Raise(e, <<>>)

\* Variant of cli_loop that fills the failing command's slot and goes on with
\* the rest of the list; C2 must tell it from cli_loop.
RECURSIVE cli_loop_continue(_, _, _, _, _, _)
cli_loop_continue(dev, commands, react, i, cli_output, trips) ==
    IF i > Len(commands) THEN Done(Return(cli_output), trips)
    ELSE LET command == commands[i]
             trip == Trip(<<command>>, "text")
         IN IF NoSession(dev)
            THEN Done(cli_except(command, "AttributeError", cli_output), trips)
            ELSE cli_loop_continue(dev, commands, react, i + 1,
                                   Put(cli_output, command,
                                       IF react[i].kind = "ok" THEN react[i].output
                                       ELSE "Invalid command: \"" \o command \o "\""),
                                   Append(trips, trip))

RECURSIVE cli_loop(_, _, _, _, _, _)
cli_loop(dev, commands, react, i, cli_output, trips) ==
    IF i > Len(commands) THEN Done(Return(cli_output), trips)
    ELSE LET command == commands[i]
             trip == Trip(<<command>>, "text")
         IN IF NoSession(dev)
            THEN Done(cli_except(command, "AttributeError", cli_output), trips)
            ELSE IF react[i].kind # "ok"
            THEN Done(cli_except(command, react[i].kind, cli_output), Append(trips, trip))
            ELSE cli_loop(dev, commands, react, i + 1,
                          Put(cli_output, command, react[i].output), Append(trips, trip))

cli(dev, commands, react) ==
    IF commands.type # "list"
    THEN Done(Raise("TypeError", "Please enter a valid list of commands!"), <<>>)
    ELSE cli_loop(dev, commands.items, react, 1, EmptyDict, <<>>)

Cli ==
    /\ \E commands \in CliArgs :
         \E react \in {f \in [1..Len(commands.items) -> {Failed(e) : e \in ExecutorErrors}
                                                           \cup {Ok(t) : t \in CliTexts}] :
                           \A i \in 1..Len(commands.items) :
                               f[i] \in CliReactions(commands.items[i])} :
           LET r == cli(device, commands, react)
           IN /\ call' = [op |-> "cli", arg |-> commands, react |-> react]
              /\ sent' = r.sent
              /\ outcome' = r.out
    /\ UNCHANGED <<transport, device>>

(***************************************************************************)
(* get_arp_table                                                           *)
(*                                                                         *)
(* The ARP text is a sequence of lines, a line the sequence of its         *)
(* whitespace-separated fields.                                            *)
(***************************************************************************)
IpShaped == {"10.0.0.1", "10.0.0.2"}

MacShaped == {"AA:BB:CC:DD:EE:FF", "aa-bb-cc-dd-ee-01"}

ArpLines ==
    {<<"Address", "HWtype", "HWaddress", "Flags", "Iface">>,
     <<"10.0.0.1", "ether", "AA:BB:CC:DD:EE:FF", "C", "eth3">>,
     <<"10.0.0.2", "ether", "aa-bb-cc-dd-ee-01", "C", "eth1">>,
     <<"10.0.0.3", "(incomplete)", "eth1">>}

ArpReactions == {Ok(<<t>>) : t \in SeqsUpTo(ArpLines, 2)} \cup ExecutorFailures

\* _RE_ARP: address, one field, hwAddress, one field, interface, end of line
RE_ARP_match(line) ==
    /\ Len(line) = 5
    /\ line[1] \in IpShaped
    /\ line[3] \in MacShaped

\* napalm_base.helpers.mac: upper case, colon separated
helpers_mac(m) == IF m = "aa-bb-cc-dd-ee-01" THEN "AA:BB:CC:DD:EE:01" ELSE m

RECURSIVE arp_lines(_, _, _)
arp_lines(output, i, arp_table) ==
    IF i > Len(output) THEN arp_table
    ELSE IF RE_ARP_match(output[i])
    THEN arp_lines(output, i + 1,
                   Append(arp_table, [interface |-> output[i][5],
                                      mac |-> helpers_mac(output[i][3]),
                                      ip |-> output[i][1],
                                      age |-> 0]))
    ELSE arp_lines(output, i + 1, arp_table)

\* what the except clause of get_arp_table's try statement does with e
arp_except(e) ==
    IF ~Resolves("pyeapi")
    THEN \* the clause "except pyeapi.eapilib.CommandError" evaluates an unbound name
         Raise("NameError", "pyeapi")
    ELSE IF e = "CommandError" THEN Return(<<>>)
    ELSE Raise(e, <<>>)

get_arp_table(dev, react) ==
    LET trip == Trip(<<"show arp">>, "json")
    IN IF NoSession(dev) THEN Done(arp_except("AttributeError"), <<>>)
       ELSE IF react.kind # "ok" THEN Done(arp_except(react.kind), <<trip>>)
       ELSE Done(Return(arp_lines(react.output[1], 1, <<>>)), <<trip>>)

GetArpTable ==
    /\ \E react \in ArpReactions :
         LET r == get_arp_table(device, react)
         IN /\ call' = [op |-> "get_arp_table", arg |-> <<>>, react |-> react]
            /\ sent' = r.sent
            /\ outcome' = r.out
    /\ UNCHANGED <<transport, device>>

(***************************************************************************)
(* Character strings: a string is the sequence of its characters.          *)
(***************************************************************************)
Digits == {"0", "1", "2", "3", "4", "5", "6", "7", "8", "9"}

DigitValue(c) ==
    CASE c = "0" -> 0 [] c = "1" -> 1 [] c = "2" -> 2 [] c = "3" -> 3 [] c = "4" -> 4
      [] c = "5" -> 5 [] c = "6" -> 6 [] c = "7" -> 7 [] c = "8" -> 8 [] c = "9" -> 9

\* int(s) of a string of digits
RECURSIVE int(_)
int(s) ==
    IF s = <<>> THEN 0
    ELSE 10 * int(SubSeq(s, 1, Len(s) - 1)) + DigitValue(s[Len(s)])

\* the position after the longest run of characters of class C that starts at i
RECURSIVE RunEnd(_, _, _)
RunEnd(s, i, C) == IF i <= Len(s) /\ s[i] \in C THEN RunEnd(s, i + 1, C) ELSE i

\* s has the literal lit at position i
HasAt(s, i, lit) == i + Len(lit) - 1 <= Len(s) /\ SubSeq(s, i, i + Len(lit) - 1) = lit

startswith(s, prefix) == HasAt(s, 1, prefix)

contains(s, sub) == \E i \in 1..(Len(s) + 1) : HasAt(s, i, sub)

(***************************************************************************)
(* get_facts                                                               *)
(***************************************************************************)
NoMatch == [matched |-> FALSE]

NoGroup == <<>>

\* (?P<hour>\d+):(?P<minute>\d+):(?P<second>\d+) at position i, day group given
RE_UPTIME_hms(s, i, day) ==
    LET h == RunEnd(s, i, Digits)
        m == RunEnd(s, h + 1, Digits)
        e == RunEnd(s, m + 1, Digits)
    IN IF /\ h > i
          /\ HasAt(s, h, <<":">>)
          /\ m > h + 1
          /\ HasAt(s, m, <<":">>)
          /\ e > m + 1
       THEN [matched |-> TRUE, day |-> day,
             hour |-> SubSeq(s, i, h - 1),
             minute |-> SubSeq(s, h + 1, m - 1),
             second |-> SubSeq(s, m + 1, e - 1)]
       ELSE NoMatch

\* _RE_UPTIME = ^((?P<day>\d+)\s+days?,\s+)?(?P<hour>\d+):(?P<minute>\d+):(?P<second>\d+)
RE_UPTIME_match(s) ==
    LET d == RunEnd(s, 1, Digits)
        w == RunEnd(s, d, {" "})
        y == IF HasAt(s, w, <<"d", "a", "y", "s">>) THEN w + 4 ELSE w + 3
        c == RunEnd(s, y + 1, {" "})
        withDay ==
            IF /\ d > 1
               /\ w > d
               /\ HasAt(s, w, <<"d", "a", "y">>)
               /\ HasAt(s, y, <<",">>)
               /\ c > y + 1
            THEN RE_UPTIME_hms(s, c, SubSeq(s, 1, d - 1))
            ELSE NoMatch
    IN IF withDay.matched THEN withDay ELSE RE_UPTIME_hms(s, 1, NoGroup)

\* timedelta(days, hours, minutes, seconds).total_seconds()
timedelta_total_seconds(days, hours, minutes, seconds) ==
    days * 86400 + hours * 3600 + minutes * 60 + seconds

Uptimes ==
    {<<"2", " ", "d", "a", "y", "s", ",", " ", "0", "3", ":", "0", "4", ":", "0", "5">>,
     <<"0", "3", ":", "0", "4", ":", "0", "5">>,
     <<"1", " ", "d", "a", "y", ",", " ", "0", "0", ":", "0", "0", ":", "5", "9">>,
     <<"1", "2", " ", "d", "a", "y", "s", " ", "0", "1", ":", "0", "2", ":", "0", "3">>,
     <<"u", "p", " ", "3", " ", "m", "i", "n">>,
     <<"7", ":", "0", "8">>}

\* interface names, and the number sorted_nicely compares them by
IfaceNames == <<"eth10", "eth2", "eth1", "eth3">>

IfaceNumber(name) ==
    CASE name = "eth10" -> 10 [] name = "eth2" -> 2 [] name = "eth1" -> 1 [] name = "eth3" -> 3

Ifaces == {IfaceNames[i] : i \in 1..MaxIfaces}

\* string_parsers.sorted_nicely: natural order, numeric parts compared as numbers
RECURSIVE sorted_nicely(_)
sorted_nicely(names) ==
    IF names = {} THEN <<>>
    ELSE LET first == CHOOSE n \in names : \A o \in names : IfaceNumber(n) <= IfaceNumber(o)
         IN <<first>> \o sorted_nicely(names \ {first})

\* text of 'show hostname': lines of space-separated tokens
HostnameTexts ==
    {<< <<"Hostname:", "sw1">>, <<"FQDN:", "sw1.lab">> >>}

FactsReactions ==
    {Ok(<<[uptime |-> u, device |-> "MetaConnect 48", serialNumber |-> "C48-0001",
           softwareImageVersion |-> "0.13.4"],
          h, names>>) :
        u \in Uptimes, h \in HostnameTexts, names \in SUBSET Ifaces}
      \cup {Ok(<<[uptime |-> <<"7", ":", "0", "8">>, device |-> "MetaConnect 48",
                   serialNumber |-> "C48-0001", softwareImageVersion |-> "0.13.4"],
                  << <<"Hostname:", "sw1">> >>, {}>>)}
      \cup ExecutorFailures

get_facts(dev, react) ==
    LET trip == Trip(<<"show version", "show hostname", "show interfaces status">>, "json")
        version == react.output[1]
        lines == react.output[2]
        u_match == RE_UPTIME_match(version.uptime)
        day == IF u_match.day = NoGroup THEN 0 ELSE int(u_match.day)
        \* timedelta(days=..., hours=..., seconds=...): no minutes argument
        uptime == timedelta_total_seconds(day, int(u_match.hour), 0, int(u_match.second))
    IN IF NoSession(dev) THEN Done(Raise("AttributeError", <<>>), <<>>)
       ELSE IF react.kind # "ok" THEN Done(Raise(react.kind, <<>>), <<trip>>)
       ELSE IF Len(lines) < 2 THEN Done(Raise("IndexError", <<>>), <<trip>>)
       ELSE IF ~u_match.matched
       THEN \* re.match(...) is None: None has no groupdict
            Done(Raise("AttributeError", <<>>), <<trip>>)
       ELSE Done(Return([hostname |-> lines[1][Len(lines[1])],
                         fqdn |-> lines[2][Len(lines[2])],
                         vendor |-> "Metamako",
                         model |-> version.device,
                         serial_number |-> version.serialNumber,
                         os_version |-> version.softwareImageVersion,
                         uptime |-> uptime,
                         interface_list |-> sorted_nicely(react.output[3])]),
                 <<trip>>)

GetFacts ==
    /\ \E react \in FactsReactions :
         LET r == get_facts(device, react)
         IN /\ call' = [op |-> "get_facts", arg |-> <<>>, react |-> react]
            /\ sent' = r.sent
            /\ outcome' = r.out
    /\ UNCHANGED <<transport, device>>

(***************************************************************************)
(* get_interfaces                                                          *)
(***************************************************************************)
\* Variant of factormap that reads a number without unit as Mbit/s and 'k' as
\* tens of Mbit/s; C7 must tell it from factormap.
factormap_plain ==
    [u \in {<<>>, <<"k">>, <<"M">>, <<"G">>, <<"T">>} |->
        CASE u = <<>> -> [num |-> 1, den |-> 1]
          [] u = <<"k">> -> [num |-> 10, den |-> 1]
          [] u = <<"M">> -> [num |-> 1, den |-> 1]
          [] u = <<"G">> -> [num |-> 1000, den |-> 1]
          [] u = <<"T">> -> [num |-> 1000000, den |-> 1]]

\* factormap, each factor as the fraction num/den
factormap ==
    [u \in {<<>>, <<"k">>, <<"M">>, <<"G">>, <<"T">>} |->
        CASE u = <<>> -> [num |-> 1, den |-> 1000000]
          [] u = <<"k">> -> [num |-> 1, den |-> 1000]
          [] u = <<"M">> -> [num |-> 1, den |-> 1]
          [] u = <<"G">> -> [num |-> 1000, den |-> 1]
          [] u = <<"T">> -> [num |-> 1000000, den |-> 1]]

\* re.match(r'^(?P<speed>\d+)(?P<unit>\D)?$', speed), groupdict('')
RE_SPEED_match(speed) ==
    LET d == RunEnd(speed, 1, Digits)
    IN IF d > 1 /\ d = Len(speed) + 1
       THEN [matched |-> TRUE, speed |-> speed, unit |-> <<>>]
       ELSE IF d > 1 /\ d = Len(speed)
       THEN [matched |-> TRUE, speed |-> SubSeq(speed, 1, d - 1), unit |-> <<speed[d]>>]
       ELSE NoMatch

\* _parse_mm_speed: the Mbit/s value, or the KeyError of the factormap lookup
parse_mm_speed(speed) ==
    LET match == RE_SPEED_match(speed)
    IN IF match.matched
       THEN IF match.unit \in DOMAIN factormap
            THEN \* int(int(speed) * factor): the product truncated
                 Return((int(match.speed) * factormap[match.unit].num)
                            \div factormap[match.unit].den)
            ELSE Raise("KeyError", match.unit)
       ELSE Return(0)

\* the 'rx' and 'speed' fields of one interface of 'show interfaces status'
IfaceStatusValues ==
    {[rx |-> <<"u", "p">>, speed |-> <<"0">>],
     [rx |-> <<"u", "p">>, speed |-> <<"1", "0", "0">>],
     [rx |-> <<"d", "o", "w", "n">>, speed |-> <<"1", "k">>],
     [rx |-> <<"u", "p", " ", "(", "s", "h", "u", "t", "d", "o", "w", "n", ")">>,
      speed |-> <<"1", "0", "G">>],
     [rx |-> <<"d", "o", "w", "n", " ", "(", "s", "h", "u", "t", "d", "o", "w", "n", ")">>,
      speed |-> <<"1", "T">>],
     [rx |-> <<"s", "h", "u", "t", "d", "o", "w", "n">>, speed |-> <<"a", "u", "t", "o">>],
     [rx |-> <<"u", "p">>, speed |-> <<"1", "0", "X">>]}

\* a payload keyed by interface name: a dict over some of the interfaces
IfaceDicts(Values) == UNION {[names -> Values] : names \in SUBSET Ifaces}

\* rows of 'show interfaces description'
DescriptionRows ==
    {<<[Port |-> "eth2", Description |-> "uplink"],
       [Port |-> "eth2", Description |-> "core"]>>}

InterfacesReactions ==
    {Ok(<<status, rows>>) : status \in IfaceDicts(IfaceStatusValues), rows \in DescriptionRows}
      \cup ExecutorFailures

\* {d['Port'] : d['Description'] for d in rows}
RECURSIVE descriptions_of(_, _, _)
descriptions_of(rows, i, d) ==
    IF i > Len(rows) THEN d
    ELSE descriptions_of(rows, i + 1, Put(d, rows[i].Port, rows[i].Description))

is_up_of(values) == startswith(values.rx, <<"u", "p">>)

\* Variant of is_enabled_of that disables every interface whose rx mentions
\* shutdown, up or not; C10 must tell it from is_enabled_of.
is_enabled_of_any_shutdown(values) ==
    ~contains(values.rx, <<"s", "h", "u", "t", "d", "o", "w", "n">>)

is_enabled_of(values) ==
    IF startswith(values.rx, <<"u", "p">>) THEN TRUE
    ELSE IF contains(values.rx, <<"s", "h", "u", "t", "d", "o", "w", "n">>) THEN FALSE
    ELSE TRUE

get_interfaces(dev, react) ==
    LET trip == Trip(<<"show interfaces status", "show interfaces description">>, "json")
        status == react.output[1]
        descriptions == descriptions_of(react.output[2], 1, EmptyDict)
        failing == {i \in DOMAIN status : parse_mm_speed(status[i].speed).kind = "raise"}
    IN IF NoSession(dev) THEN Done(Raise("AttributeError", <<>>), <<>>)
       ELSE IF react.kind # "ok" THEN Done(Raise(react.kind, <<>>), <<trip>>)
       ELSE IF failing # {}
       THEN Done(parse_mm_speed(status[CHOOSE i \in failing : TRUE].speed), <<trip>>)
       ELSE Done(Return([i \in DOMAIN status |->
                           [is_up |-> is_up_of(status[i]),
                            is_enabled |-> is_enabled_of(status[i]),
                            description |-> IF i \in DOMAIN descriptions
                                            THEN descriptions[i] ELSE "",
                            last_flapped |-> 0,
                            speed |-> parse_mm_speed(status[i].speed).value,
                            mac_address |-> ""]]),
                 <<trip>>)

GetInterfaces ==
    /\ \E react \in InterfacesReactions :
         LET r == get_interfaces(device, react)
         IN /\ call' = [op |-> "get_interfaces", arg |-> <<>>, react |-> react]
            /\ sent' = r.sent
            /\ outcome' = r.out
    /\ UNCHANGED <<transport, device>>

(***************************************************************************)
(* get_lldp_neighbors                                                      *)
(***************************************************************************)
LldpRows ==
    {[Port |-> "eth1", Neighbor_Device |-> "A", Neighbor_Port |-> "p1"],
     [Port |-> "eth1", Neighbor_Device |-> "B", Neighbor_Port |-> "p2"],
     [Port |-> "eth2", Neighbor_Device |-> "", Neighbor_Port |-> ""]}

LldpReactions == {Ok(<<rows>>) : rows \in SeqsUpTo(LldpRows, 2)} \cup ExecutorFailures

RECURSIVE lldp_rows(_, _, _)
lldp_rows(output, i, lldp) ==
    IF i > Len(output) THEN lldp
    ELSE LET n == output[i]
             entry == [hostname |-> n.Neighbor_Device, port |-> n.Neighbor_Port]
         IN IF n.Neighbor_Device # "" /\ n.Neighbor_Port # ""
            THEN lldp_rows(output, i + 1,
                           Put(lldp, n.Port,
                               IF n.Port \in DOMAIN lldp
                               THEN Append(lldp[n.Port], entry) ELSE <<entry>>))
            ELSE lldp_rows(output, i + 1, lldp)

get_lldp_neighbors(dev, react) ==
    LET trip == Trip(<<"show lldp neighbor">>, "json")
    IN IF NoSession(dev) THEN Done(Raise("AttributeError", <<>>), <<>>)
       ELSE IF react.kind # "ok" THEN Done(Raise(react.kind, <<>>), <<trip>>)
       ELSE Done(Return(lldp_rows(react.output[1], 1, EmptyDict)), <<trip>>)

GetLldpNeighbors ==
    /\ \E react \in LldpReactions :
         LET r == get_lldp_neighbors(device, react)
         IN /\ call' = [op |-> "get_lldp_neighbors", arg |-> <<>>, react |-> react]
            /\ sent' = r.sent
            /\ outcome' = r.out
    /\ UNCHANGED <<transport, device>>

(***************************************************************************)
(* get_interfaces_counters                                                 *)
(***************************************************************************)
\* dict.get(key, default)
get(d, key, default) == IF key \in DOMAIN d THEN d[key] ELSE default

\* one interface's entry of 'show interfaces counters'
CounterValues ==
    {[txoctets |-> 10, rxoctets |-> 20, txucastpkts |-> 1, rxucastpkts |-> 2,
      txmcastpkts |-> 3, rxmcastpkts |-> 4, txbcastpkts |-> 5, rxbcastpkts |-> 6]}

\* one interface's entry of 'show interfaces counters errors'
ErrorValues == {[tx |-> 1, rx |-> 2]}

CountersReactions ==
    {Ok(<<[interfaces |-> c], [interfaces |-> e]>>) :
        c \in IfaceDicts(CounterValues), e \in IfaceDicts(ErrorValues)}
      \cup ExecutorFailures

\* Variant of get_interfaces_counters that takes rx_errors from the 'rx' field;
\* C12 must tell it from get_interfaces_counters.
get_interfaces_counters_rx(dev, react) ==
    LET trip == Trip(<<"show interfaces counters", "show interfaces counters errors">>, "json")
        errorsdict == react.output[2].interfaces
        countersdict == react.output[1].interfaces
    IN IF NoSession(dev) THEN Done(Raise("AttributeError", <<>>), <<>>)
       ELSE IF react.kind # "ok" THEN Done(Raise(react.kind, <<>>), <<trip>>)
       ELSE Done(Return([interface \in DOMAIN countersdict |->
                  LET counters == countersdict[interface]
                  IN [tx_errors |-> get(get(errorsdict, interface, EmptyDict), "tx", -1),
                      rx_errors |-> get(get(errorsdict, interface, EmptyDict), "rx", -1),
                      tx_discards |-> -1,
                      rx_discards |-> -1,
                      tx_octets |-> get(counters, "txoctets", -1),
                      rx_octets |-> get(counters, "rxoctets", -1),
                      tx_unicast_packets |-> get(counters, "txucastpkts", -1),
                      rx_unicast_packets |-> get(counters, "rxucastpkts", -1),
                      tx_multicast_packets |-> get(counters, "txmcastpkts", -1),
                      rx_multicast_packets |-> get(counters, "rxmcastpkts", -1),
                      tx_broadcast_packets |-> get(counters, "txbcastpkts", -1),
                      rx_broadcast_packets |-> get(counters, "rxbcastpkts", -1)]]),
                 <<trip>>)

get_interfaces_counters(dev, react) ==
    LET trip == Trip(<<"show interfaces counters", "show interfaces counters errors">>, "json")
        errorsdict == react.output[2].interfaces
        countersdict == react.output[1].interfaces
    IN IF NoSession(dev) THEN Done(Raise("AttributeError", <<>>), <<>>)
       ELSE IF react.kind # "ok" THEN Done(Raise(react.kind, <<>>), <<trip>>)
       ELSE Done(Return([interface \in DOMAIN countersdict |->
                  LET counters == countersdict[interface]
                  IN [tx_errors |-> get(get(errorsdict, interface, EmptyDict), "tx", -1),
                      rx_errors |-> get(get(errorsdict, interface, EmptyDict), "tx", -1),
                      tx_discards |-> -1,
                      rx_discards |-> -1,
                      tx_octets |-> get(counters, "txoctets", -1),
                      rx_octets |-> get(counters, "rxoctets", -1),
                      tx_unicast_packets |-> get(counters, "txucastpkts", -1),
                      rx_unicast_packets |-> get(counters, "rxucastpkts", -1),
                      tx_multicast_packets |-> get(counters, "txmcastpkts", -1),
                      rx_multicast_packets |-> get(counters, "rxmcastpkts", -1),
                      tx_broadcast_packets |-> get(counters, "txbcastpkts", -1),
                      rx_broadcast_packets |-> get(counters, "rxbcastpkts", -1)]]),
                 <<trip>>)

GetInterfacesCounters ==
    /\ \E react \in CountersReactions :
         LET r == get_interfaces_counters(device, react)
         IN /\ call' = [op |-> "get_interfaces_counters", arg |-> <<>>, react |-> react]
            /\ sent' = r.sent
            /\ outcome' = r.out
    /\ UNCHANGED <<transport, device>>

(***************************************************************************)
(* get_environment                                                         *)
(*                                                                         *)
(* A float is modelled by its value in thousandths.                        *)
(***************************************************************************)
\* float(s) of a string of digits and dots, in thousandths, or ValueError
float_of(s) ==
    LET dots == {i \in 1..Len(s) : s[i] = "."}
        dot == IF dots = {} THEN Len(s) + 1 ELSE CHOOSE i \in dots : TRUE
        whole == SubSeq(s, 1, dot - 1)
        frac == SubSeq(s, dot + 1, Len(s))
        frac3 == SubSeq(frac \o <<"0", "0", "0">>, 1, 3)
    IN IF Cardinality(dots) > 1 \/ Len(s) - Cardinality(dots) = 0
       THEN Raise("ValueError", s)
       ELSE Return(int(whole) * 1000 + int(frac3))

\* float(re.match(r'^([\d\.]+)', s).group())
float_prefix(s) ==
    LET e == RunEnd(s, 1, Digits \cup {"."})
    IN IF e = 1
       THEN \* re.match(...) is None: None has no group
            Raise("AttributeError", s)
       ELSE float_of(SubSeq(s, 1, e - 1))

InputVoltages ==
    {<<"1", "2", ".", "1", "V">>, <<"0", ".", "0", "V">>, <<"N", "/", "A">>}

EnvironmentOutputs ==
    {[systemCooling |-> [fans |-> fans],
      systemTemperature |-> [sensors |-> sensors],
      systemPower |->
          [powerSupplies |-> [psu \in {"PSU1"} |-> [capacity |-> <<"4", "6", "0", "W">>]],
           powerOutput |-> [psu \in {"PSU1"} |->
                              [inputVoltage |-> v,
                               outputPower |-> <<"1", "5", "0", ".", "5", "W">>]]]] :
        fans \in {[slot \in {"1", "2"} |-> [status |-> IF slot = "1" THEN "OK" ELSE "FAIL"]]},
        sensors \in {[n \in {"1"} |-> [description |-> "Board", temp |-> t,
                                       alertThreshold |-> 60, criticalThreshold |-> 70]] :
                        t \in {45, 60, 65, 71}},
        v \in InputVoltages}

EnvironmentReactions == {Ok(<<o>>) : o \in EnvironmentOutputs} \cup ExecutorFailures

\* the first failure among the conversions of the power section, if any
power_failure(psu_dict, powerOutput) ==
    LET readings == {float_prefix(powerOutput[psu].inputVoltage) : psu \in DOMAIN powerOutput}
                      \cup {float_prefix(psu_dict[psu].capacity) : psu \in DOMAIN powerOutput}
                      \cup {float_prefix(powerOutput[psu].outputPower) : psu \in DOMAIN powerOutput}
    IN {r \in readings : r.kind = "raise"}

get_environment(dev, react) ==
    LET trip == Trip(<<"show environment all">>, "json")
        output == react.output[1]
        fans == output.systemCooling.fans
        sensors == output.systemTemperature.sensors
        psu_dict == output.systemPower.powerSupplies
        powerOutput == output.systemPower.powerOutput
        failures == power_failure(psu_dict, powerOutput)
    IN IF NoSession(dev) THEN Done(Raise("AttributeError", <<>>), <<>>)
       ELSE IF react.kind # "ok" THEN Done(Raise(react.kind, <<>>), <<trip>>)
       ELSE IF failures # {} THEN Done(CHOOSE r \in failures : TRUE, <<trip>>)
       ELSE Done(Return(
              [fans |-> [slot \in DOMAIN fans |-> [status |-> fans[slot].status = "OK"]],
               temperature |->
                   [d \in {sensors[n].description : n \in DOMAIN sensors} |->
                      LET v == sensors[CHOOSE n \in DOMAIN sensors : sensors[n].description = d]
                      IN [temperature |-> v.temp,
                          is_alert |-> v.temp > v.alertThreshold,
                          is_critical |-> v.temp > v.criticalThreshold]],
               power |->
                   [psu \in DOMAIN powerOutput |->
                      [status |-> float_prefix(powerOutput[psu].inputVoltage).value # 0,
                       capacity |-> float_prefix(psu_dict[psu].capacity).value,
                       output |-> float_prefix(powerOutput[psu].outputPower).value]],
               cpu |-> [c \in {0} |-> [usage |-> -1]],
               memory |-> [available_ram |-> -1, used_ram |-> -1]]),
            <<trip>>)

GetEnvironment ==
    /\ \E react \in EnvironmentReactions :
         LET r == get_environment(device, react)
         IN /\ call' = [op |-> "get_environment", arg |-> <<>>, react |-> react]
            /\ sent' = r.sent
            /\ outcome' = r.out
    /\ UNCHANGED <<transport, device>>

(***************************************************************************)
(* get_optics                                                              *)
(***************************************************************************)
OpticsValues == {[rxPwr |-> -3, txPwr |-> -2, txBias |-> 6], [rxPwr |-> -3], [vendor |-> 1]}

OpticsReactions ==
    {Ok(<<[interfaces |-> o]>>) : o \in IfaceDicts(OpticsValues)} \cup ExecutorFailures

get_optics(dev, react) ==
    LET trip == Trip(<<"show interfaces transceiver">>, "json")
        output == react.output[1].interfaces
        reading(v) == [instant |-> v, avg |-> 0, min |-> 0, max |-> 0]
    IN IF NoSession(dev) THEN Done(Raise("AttributeError", <<>>), <<>>)
       ELSE IF react.kind # "ok" THEN Done(Raise(react.kind, <<>>), <<trip>>)
       ELSE Done(Return([port \in DOMAIN output |->
                  [physical_channels |->
                     [channel |->
                        <<[index |-> 0,
                           state |->
                             [input_power |-> reading(get(output[port], "rxPwr", 0)),
                              output_power |-> reading(get(output[port], "txPwr", 0)),
                              laser_bias_current |->
                                  reading(get(output[port], "txBias", 0))]]>>]]]),
                 <<trip>>)

GetOptics ==
    /\ \E react \in OpticsReactions :
         LET r == get_optics(device, react)
         IN /\ call' = [op |-> "get_optics", arg |-> <<>>, react |-> react]
            /\ sent' = r.sent
            /\ outcome' = r.out
    /\ UNCHANGED <<transport, device>>

(***************************************************************************)
(* get_lldp_neighbors_detail                                               *)
(*                                                                         *)
(* The text is a sequence of lines.  A line is a header "* <interface>",   *)
(* a blank line, or any other line, given by its ':'-separated parts (each *)
(* part without its surrounding blanks).  Texts have no two blank lines in *)
(* a row.                                                                  *)
(***************************************************************************)
Header(n) == [kind |-> "header", name |-> n, parts |-> <<>>]

Blank == [kind |-> "blank", name |-> "", parts |-> <<>>]

Info(parts) == [kind |-> "info", name |-> "", parts |-> parts]

LldpDetailTexts ==
    {<<>>,
     <<Header("eth1"), Info(<<"port id", "et1 (ifname)">>), Info(<<"system name", "sw2">>),
       Blank, Info(<<"chassis id", "aa", "bb (mac)">>), Header("eth2")>>,
     <<Header("eth1"), Info(<<"garbage line">>)>>,
     <<Info(<<"LLDP neighbors">>), Header("eth2"),
       Info(<<"system capability", "{'capabilities'", "'B,R', 'enabled'", "'R'}">>)>>}

LldpDetailReactions == {Ok(<<t>>) : t \in LldpDetailTexts} \cup ExecutorFailures

\* re.split(r'^\*\s(\S+)$', text, flags=re.MULTILINE)[1:], paired by zip
RECURSIVE split_interfaces(_, _, _)
split_interfaces(text, i, pairs) ==
    IF i > Len(text) THEN pairs
    ELSE IF text[i].kind = "header"
    THEN split_interfaces(text, i + 1,
                          Append(pairs, [interface |-> text[i].name, lines |-> <<>>]))
    ELSE IF pairs = <<>> THEN split_interfaces(text, i + 1, pairs)
    ELSE split_interfaces(text, i + 1,
                          [pairs EXCEPT ![Len(pairs)].lines = Append(@, text[i])])

\* str.strip() of a block of lines: the blank lines at both ends go
RECURSIVE strip_lines(_)
strip_lines(lines) ==
    IF lines = <<>> THEN lines
    ELSE IF lines[1].kind = "blank" THEN strip_lines(Tail(lines))
    ELSE IF lines[Len(lines)].kind = "blank" THEN strip_lines(SubSeq(lines, 1, Len(lines) - 1))
    ELSE lines

\* str.split('\n\n') of a stripped block: the entries between blank lines
RECURSIVE split_entries(_, _, _)
split_entries(lines, i, entries) ==
    IF i > Len(lines) THEN entries
    ELSE IF lines[i].kind = "blank" THEN split_entries(lines, i + 1, Append(entries, <<>>))
    ELSE split_entries(lines, i + 1,
                       [entries EXCEPT ![Len(entries)] = Append(@, lines[i])])

\* ':'.join(parts[from..])
RECURSIVE join(_, _)
join(parts, from) ==
    IF from > Len(parts) THEN ""
    ELSE IF from = Len(parts) THEN parts[from]
    ELSE parts[from] \o ":" \o join(parts, from + 1)

\* key, value = info_line.split(':', 1) for each line of an entry
RECURSIVE info_lines(_, _, _)
info_lines(entry, i, info_dict) ==
    IF i > Len(entry) THEN Return(info_dict)
    ELSE IF Len(entry[i].parts) < 2 THEN Raise("ValueError", entry[i].parts)
    ELSE info_lines(entry, i + 1, Put(info_dict, entry[i].parts[1], join(entry[i].parts, 2)))

\* re.sub(r'\s*\([^\)]*\)\s*', '', value)
paren_sub(value) ==
    CASE value = "et1 (ifname)" -> "et1"
      [] value = "aa:bb (mac)" -> "aa:bb"
      [] OTHER -> value

\* ast.literal_eval inside try / bare except: the name ast is not bound, so
\* the NameError is swallowed and the capabilities are the empty dict
capabilities_of(info_dict) ==
    IF Resolves("ast") /\ get(info_dict, "system capability", "{}") # "{}"
    THEN [capabilities |-> "B,R", enabled |-> "R"]
    ELSE EmptyDict

\* str.replace(',', ', ') of the capability strings this model has
comma_space(caps) ==
    CASE caps = "B,R" -> "B, R"
      [] OTHER -> caps

tlv_dict_of(interface, info_dict) ==
    [parent_interface |-> interface,
     remote_port |-> paren_sub(get(info_dict, "port id", "")),
     remote_port_description |-> get(info_dict, "port description", ""),
     remote_chassis_id |-> paren_sub(get(info_dict, "chassis id", "")),
     remote_system_name_ |-> get(info_dict, "system name", ""),
     remote_system_description |-> get(info_dict, "system description", ""),
     remote_system_capab |-> comma_space(get(capabilities_of(info_dict), "capabilities", "")),
     remote_system_enabled_capab |-> comma_space(get(capabilities_of(info_dict), "enabled", ""))]

get_lldp_neighbors_detail(dev, interface, react) ==
    LET trip == Trip(<<"show lldp neighbor " \o interface \o " verbose">>, "json")
        pairs == split_interfaces(react.output[1], 1, <<>>)
        entries(k) == split_entries(strip_lines(pairs[k].lines), 1, << <<>> >>)
        parsed(k) == [e \in 1..Len(entries(k)) |-> info_lines(entries(k)[e], 1, EmptyDict)]
        failures == {r \in UNION {{parsed(k)[e] : e \in 1..Len(entries(k))} : k \in 1..Len(pairs)} :
                        r.kind = "raise"}
    IN IF NoSession(dev) THEN Done(Raise("AttributeError", <<>>), <<>>)
       ELSE IF react.kind # "ok" THEN Done(Raise(react.kind, <<>>), <<trip>>)
       ELSE IF failures # {} THEN Done(CHOOSE r \in failures : TRUE, <<trip>>)
       ELSE Done(Return([name \in {pairs[k].interface : k \in 1..Len(pairs)} |->
                  LET k == CHOOSE j \in 1..Len(pairs) :
                              /\ pairs[j].interface = name
                              /\ \A l \in 1..Len(pairs) : pairs[l].interface = name => l <= j
                  IN [e \in 1..Len(entries(k)) |->
                        tlv_dict_of(name, parsed(k)[e].value)]]),
                 <<trip>>)

GetLldpNeighborsDetail ==
    /\ \E interface \in {"", "eth1"}, react \in LldpDetailReactions :
         LET r == get_lldp_neighbors_detail(device, interface, react)
         IN /\ call' = [op |-> "get_lldp_neighbors_detail", arg |-> interface, react |-> react]
            /\ sent' = r.sent
            /\ outcome' = r.out
    /\ UNCHANGED <<transport, device>>

(***************************************************************************)
(* get_ntp_stats                                                           *)
(*                                                                         *)
(* A line of the associations text is its sync mark and its whitespace-    *)
(* separated fields; the fields the code converts to numbers are character *)
(* strings.                                                                *)
(***************************************************************************)
NtpHeader ==
    <<[mark |-> "", fields |-> <<"remote", "refid", "st", "t", "when", "poll", "reach",
                                 "delay", "offset", "jitter">>],
      [mark |-> "", fields |-> <<"=====">>]>>

NtpLines ==
    {[mark |-> "", fields |-> <<"ntp3.lab", "unreachable">>],
     [mark |-> "*", fields |-> <<"10.0.0.1", ".GPS.", <<"1">>, "u", "33", <<"6", "4">>,
                                 <<"3", "7", "7">>, <<"0", ".", "2", "3", "1">>,
                                 <<"-", "0", ".", "0", "4", "5">>, <<"0", ".", "0", "1", "2">>>>],
     [mark |-> "+", fields |-> <<"ntp2.lab", "10.0.0.1", <<"2">>, "u", "12", <<"6", "4">>,
                                 <<"3", "7", "7">>, <<"1", ".", "2", ".", "3">>,
                                 <<"0", ".", "3">>, <<"0", ".", "1">>>>]}

NtpReactions ==
    {Ok(<<NtpHeader \o t>>) : t \in SeqsUpTo(NtpLines, 2)} \cup {Ok(<< <<>> >>)}
      \cup ExecutorFailures

\* the eleven-group REGEX of get_ntp_stats
RE_NTP_match(line) ==
    LET f == line.fields
    IN /\ Len(f) = 10
       /\ line.mark \in {"", "+", "*", "x", "-"}
       /\ f[3] \in Seq(Digits) /\ Len(f[3]) \in 1..2
       /\ f[4] \in {"-", "u"}
       /\ f[6] \in Seq(Digits) /\ Len(f[6]) >= 1
       /\ f[7] \in Seq(Digits) /\ Len(f[7]) >= 1
       /\ f[8] \in Seq(Digits \cup {"."}) /\ Len(f[8]) >= 1
       /\ f[9] \in Seq(Digits \cup {".", "-"}) /\ Len(f[9]) >= 1
       /\ f[10] \in Seq(Digits \cup {"."}) /\ Len(f[10]) >= 1

\* float(s) of a string of digits, dots and minus signs
float_signed(s) ==
    IF "-" \notin {s[i] : i \in 1..Len(s)} THEN float_of(s)
    ELSE IF s[1] = "-" /\ "-" \notin {s[i] : i \in 2..Len(s)}
    THEN LET r == float_of(Tail(s))
         IN IF r.kind = "raise" THEN r ELSE Return(0 - r.value)
    ELSE Raise("ValueError", s)

RECURSIVE ntp_lines(_, _, _)
ntp_lines(lines, i, ntp_stats) ==
    IF i > Len(lines) THEN ntp_stats
    ELSE IF ~RE_NTP_match(lines[i]) THEN ntp_lines(lines, i + 1, ntp_stats)
    ELSE LET f == lines[i].fields
             delay == float_of(f[8])
             offset == float_signed(f[9])
             jitter == float_of(f[10])
         IN IF "raise" \in {delay.kind, offset.kind, jitter.kind}
            THEN \* except Exception: continue
                 ntp_lines(lines, i + 1, ntp_stats)
            ELSE ntp_lines(lines, i + 1,
                           Append(ntp_stats,
                                  [remote |-> f[1],
                                   synchronized |-> lines[i].mark = "*",
                                   referenceid |-> f[2],
                                   stratum |-> int(f[3]),
                                   type |-> f[4],
                                   when |-> f[5],
                                   hostpoll |-> int(f[6]),
                                   reachability |-> int(f[7]),
                                   delay |-> delay.value,
                                   offset |-> offset.value,
                                   jitter |-> jitter.value]))

get_ntp_stats(dev, react) ==
    LET trip == Trip(<<"show ntp associations">>, "text")
        ntp_assoc == react.output[1]
    IN IF NoSession(dev) THEN Done(Raise("AttributeError", <<>>), <<>>)
       ELSE IF react.kind # "ok" THEN Done(Raise(react.kind, <<>>), <<trip>>)
       ELSE Done(Return(ntp_lines(SubSeq(ntp_assoc, 3, Len(ntp_assoc)), 1, <<>>)), <<trip>>)

GetNtpStats ==
    /\ \E react \in NtpReactions :
         LET r == get_ntp_stats(device, react)
         IN /\ call' = [op |-> "get_ntp_stats", arg |-> <<>>, react |-> react]
            /\ sent' = r.sent
            /\ outcome' = r.out
    /\ UNCHANGED <<transport, device>>

(***************************************************************************)
(* get_snmp_information                                                    *)
(***************************************************************************)
\* str.replace(old, '')
RECURSIVE replace(_, _, _)
replace(s, i, old) ==
    IF i > Len(s) THEN <<>>
    ELSE IF HasAt(s, i, old) THEN replace(s, i + Len(old), old)
    ELSE <<s[i]>> \o replace(s, i + 1, old)

\* str.strip()
RECURSIVE strip(_)
strip(s) ==
    IF s = <<>> THEN s
    ELSE IF s[1] = " " THEN strip(Tail(s))
    ELSE IF s[Len(s)] = " " THEN strip(SubSeq(s, 1, Len(s) - 1))
    ELSE s

SnmpLocations ==
    {<<"L", "o", "c", "a", "t", "i", "o", "n", ":", " ", "l", "a", "b", " ">>,
     <<"L", "o", "c", "a", "t", "i", "o", "n", ":", " ">>}

SnmpContacts == {<<"C", "o", "n", "t", "a", "c", "t", ":", " ", "n", "o", "c">>}

\* a block of 'show snmp community': its lines, each a label and a value
CommunityBlocks ==
    {<<[label |-> "Community name", value |-> "public"],
       [label |-> "Community access", value |-> "read-only"],
       [label |-> "Community source", value |-> "10.0.0.0/8"]>>,
     <<[label |-> "Community name", value |-> "private"],
       [label |-> "Community access", value |-> "read-write"]>>,
     <<[label |-> "Community name", value |-> "broken"]>>}

SnmpReactions ==
    {Ok(<<"C48-0001", l, c, blocks>>) :
        l \in SnmpLocations, c \in SnmpContacts, blocks \in SeqsUpTo(CommunityBlocks, 2)}
      \cup ExecutorFailures

\* _RE_SNMP_COMM.search(block): the first position where the name line is
\* followed by the access line; 0 when there is none
RE_SNMP_COMM_search(block) ==
    LET hits == {i \in 1..(Len(block) - 1) :
                    /\ block[i].label = "Community name"
                    /\ block[i + 1].label = "Community access"}
    IN IF hits = {} THEN 0 ELSE CHOOSE i \in hits : \A j \in hits : i <= j

RECURSIVE community_blocks(_, _, _)
community_blocks(blocks, i, community) ==
    IF i > Len(blocks) THEN community
    ELSE LET block == blocks[i]
             m == RE_SNMP_COMM_search(block)
         IN IF m = 0 THEN community_blocks(blocks, i + 1, community)
            ELSE community_blocks(blocks, i + 1,
                   Put(community, block[m].value,
                       [acl |-> IF m + 2 <= Len(block) /\ block[m + 2].label = "Community source"
                                THEN block[m + 2].value ELSE "",
                        mode |-> block[m + 1].value]))

get_snmp_information(dev, react) ==
    LET trip == Trip(<<"show snmp chassis-id", "show snmp location", "show snmp contact",
                       "show snmp community">>, "json")
        snmp_config == react.output
    IN IF NoSession(dev) THEN Done(Raise("AttributeError", <<>>), <<>>)
       ELSE IF react.kind # "ok" THEN Done(Raise(react.kind, <<>>), <<trip>>)
       ELSE Done(Return(
              [chassis_id |-> snmp_config[1],
               location |-> strip(replace(snmp_config[2], 1,
                               <<"L", "o", "c", "a", "t", "i", "o", "n", ":", " ">>)),
               contact |-> strip(replace(snmp_config[3], 1,
                               <<"C", "o", "n", "t", "a", "c", "t", ":", " ">>)),
               community |-> community_blocks(snmp_config[4], 1, EmptyDict)]),
            <<trip>>)

GetSnmpInformation ==
    /\ \E react \in SnmpReactions :
         LET r == get_snmp_information(device, react)
         IN /\ call' = [op |-> "get_snmp_information", arg |-> <<>>, react |-> react]
            /\ sent' = r.sent
            /\ outcome' = r.out
    /\ UNCHANGED <<transport, device>>

(***************************************************************************)
(* Specification                                                           *)
(***************************************************************************)
Init ==
    /\ transport \in TransportArgs
    /\ device = None
    /\ call = [op |-> "none", arg |-> <<>>, react |-> <<>>]
    /\ sent = <<>>
    /\ outcome = [kind |-> "none", exc |-> "", value |-> <<>>]

Next ==
    \/ Open
    \/ Close
    \/ IsAlive
    \/ GetConfig
    \/ GetNtpServers
    \/ Cli
    \/ GetArpTable
    \/ GetFacts
    \/ GetInterfaces
    \/ GetLldpNeighbors
    \/ GetInterfacesCounters
    \/ GetEnvironment
    \/ GetOptics
    \/ GetLldpNeighborsDetail
    \/ GetNtpStats
    \/ GetSnmpInformation

Spec == Init /\ [][Next]_vars

(***************************************************************************)
(* Claims                                                                  *)
(*                                                                         *)
(* The extractor and cli calls do not change self.device, so in the state  *)
(* after such a call "device # None" says the call ran on an open session. *)
(***************************************************************************)

\* C1: when cli() is called with a list on an open session and the device
\* rejects a command (the first failure of the list is the executor's command
\* error), the call raises the aggregate command-error exception, and the map
\* that exception carries holds 'Invalid command: "<cmd>"' under the rejected
\* command; no other exception escapes.
C1_RejectedCommandRaisesAggregate ==
    (/\ call.op = "cli"
     /\ call.arg.type = "list"
     /\ device # None
     /\ \E i \in 1..Len(call.arg.items) :
          /\ call.react[i].kind = "CommandError"
          /\ \A j \in 1..(i - 1) : call.react[j].kind = "ok")
    => /\ outcome.kind = "raise"
       /\ outcome.exc = "CommandErrorException"
       /\ LET i == CHOOSE k \in 1..Len(call.arg.items) : call.react[k].kind = "CommandError"
              cmd == call.arg.items[i]
          IN /\ cmd \in DOMAIN outcome.value.str
             /\ outcome.value.str[cmd] = "Invalid command: \"" \o cmd \o "\""

\* C2 as stated: cli() on an open session sends every command of the list,
\* each in its own round trip and in list order, also after a command failed.
C2_EveryCommandSent ==
    (call.op = "cli" /\ call.arg.type = "list" /\ device # None)
    => /\ Len(sent) = Len(call.arg.items)
       /\ \A i \in 1..Len(sent) : sent[i].commands = <<call.arg.items[i]>>

\* C2 amended: cli() on an open session sends the commands one per round trip
\* and in list order up to and including the first command that fails; the
\* commands after it are never sent and the call raises instead of returning
\* a map.  When no command fails every command is sent and has its slot in
\* the returned map.
C2_SentUpToFirstFailure ==
    (call.op = "cli" /\ call.arg.type = "list" /\ device # None)
    => LET n == Len(call.arg.items)
           failing == {i \in 1..n : call.react[i].kind # "ok"}
           last == IF failing = {} THEN n
                   ELSE CHOOSE i \in failing : \A j \in failing : i <= j
       IN /\ Len(sent) = last
          /\ \A i \in 1..last :
               sent[i] = [commands |-> <<call.arg.items[i]>>, encoding |-> "text"]
          /\ failing # {} => outcome.kind = "raise"
          /\ failing = {} =>
               /\ outcome.kind = "return"
               /\ DOMAIN outcome.value = {call.arg.items[i] : i \in 1..n}

\* C2 witness: a two-command list whose first command was rejected: one round
\* trip was made, the second command was never sent.
C2_Witness ==
    /\ call.op = "cli"
    /\ call.arg.type = "list"
    /\ device # None
    /\ Len(call.arg.items) = 2
    /\ call.react[1].kind = "CommandError"
    /\ Len(sent) = 1
    /\ outcome.kind = "raise"

\* C3: get_config with a selector outside {all, running, startup} raises a
\* validation error and returns no configuration snapshot.
C3_UnknownSelectorRaises ==
    (call.op = "get_config" /\ call.arg \notin {"all", "running", "startup"})
    => outcome.kind = "raise"

\* C4: for a selector in {all, running, startup}, get_config on an open
\* session makes one round trip of exactly two commands, the startup dump in
\* slot 0 and the running dump in slot 1 when requested and '#' otherwise; the
\* returned startup (running) is the text of slot 0 (slot 1) iff it was
\* requested and the empty string otherwise; candidate is the empty string.
C4_ConfigSections ==
    (call.op = "get_config" /\ call.arg \in {"all", "running", "startup"} /\ device # None)
    => LET wantStartup == call.arg \in {"all", "startup"}
           wantRunning == call.arg \in {"all", "running"}
           expected == CASE call.arg = "all" -> <<"show startup-config", "show running-config">>
                         [] call.arg = "running" -> <<"#", "show running-config">>
                         [] call.arg = "startup" -> <<"show startup-config", "#">>
       IN /\ Len(sent) = 1
          /\ sent[1].commands = expected
          /\ call.react.kind = "ok" =>
               /\ outcome.kind = "return"
               /\ outcome.value.startup = (IF wantStartup THEN call.react.output[1] ELSE <<>>)
               /\ outcome.value.running = (IF wantRunning THEN call.react.output[2] ELSE <<>>)
               /\ outcome.value.candidate = <<>>

\* C4 witness: get_config("running") answered with two different non-empty
\* texts returned the text of slot 1 as running and an empty startup.
C4_Witness ==
    /\ call.op = "get_config"
    /\ call.arg = "running"
    /\ device # None
    /\ call.react.kind = "ok"
    /\ call.react.output[1] # <<>>
    /\ call.react.output[2] # <<>>
    /\ call.react.output[1] # call.react.output[2]
    /\ outcome.kind = "return"
    /\ outcome.value.running = call.react.output[2]
    /\ outcome.value.startup = <<>>

\* C5: when the device rejects 'show arp' (the executor raises its command
\* error), get_arp_table returns an empty list and raises nothing.
C5_RejectedArpGivesEmptyList ==
    (call.op = "get_arp_table" /\ device # None /\ call.react.kind = "CommandError")
    => /\ outcome.kind = "return"
       /\ outcome.value = <<>>

\* C6: the uptime get_facts returns is d*86400 + HH*3600 + MM*60 + SS for an
\* uptime field '[<d> days, ]HH:MM:SS', d = 0 without the day group, and is
\* not negative.
C6_UptimeSeconds ==
    (call.op = "get_facts" /\ outcome.kind = "return")
    => LET g == RE_UPTIME_match(call.react.output[1].uptime)
           d == IF g.day = <<>> THEN 0 ELSE int(g.day)
       IN /\ outcome.value.uptime =
                d * 86400 + int(g.hour) * 3600 + int(g.minute) * 60 + int(g.second)
          /\ outcome.value.uptime >= 0

\* C7 as stated: the speeds get_interfaces reports for the speed strings "0",
\* "100", "1k", "10G", "1T" are 0, 100, 10, 10000 and 1000000 Mbit/s.
C7_SpeedsAsStated ==
    (call.op = "get_interfaces" /\ outcome.kind = "return")
    => \A i \in DOMAIN outcome.value :
         LET str == call.react.output[1][i].speed
             speed == outcome.value[i].speed
         IN /\ str = <<"0">> => speed = 0
            /\ str = <<"1", "0", "0">> => speed = 100
            /\ str = <<"1", "k">> => speed = 10
            /\ str = <<"1", "0", "G">> => speed = 10000
            /\ str = <<"1", "T">> => speed = 1000000

\* C7 amended: the speeds get_interfaces reports for the speed strings "0",
\* "100", "1k", "10G", "1T" are 0, 0, 0, 10000 and 1000000 Mbit/s: a number
\* without unit counts bit/s and 'k' counts kbit/s, and the value is truncated
\* to whole Mbit/s.
C7_SpeedsTruncated ==
    (call.op = "get_interfaces" /\ outcome.kind = "return")
    => \A i \in DOMAIN outcome.value :
         LET str == call.react.output[1][i].speed
             speed == outcome.value[i].speed
         IN /\ str = <<"0">> => speed = 0
            /\ str = <<"1", "0", "0">> => speed = 0
            /\ str = <<"1", "k">> => speed = 0
            /\ str = <<"1", "0", "G">> => speed = 10000
            /\ str = <<"1", "T">> => speed = 1000000

\* C7 witness: get_interfaces returned for a payload with a "100" interface
\* and a "10G" interface.
C7_Witness ==
    /\ call.op = "get_interfaces"
    /\ outcome.kind = "return"
    /\ \E i, j \in DOMAIN outcome.value :
         /\ call.react.output[1][i].speed = <<"1", "0", "0">>
         /\ outcome.value[i].speed = 0
         /\ call.react.output[1][j].speed = <<"1", "0", "G">>
         /\ outcome.value[j].speed = 10000

\* C8: an extractor whose command output the executor delivered returns
\* normally whatever the output looks like: no parse mismatch makes it raise.
C8_ParseMismatchNeverRaises ==
    (/\ call.op \in {"get_facts", "get_interfaces", "get_environment",
                     "get_lldp_neighbors_detail", "get_arp_table", "get_ntp_stats",
                     "get_snmp_information"}
     /\ device # None
     /\ call.react.kind = "ok")
    => outcome.kind = "return"

\* C9: every fact-extractor call on an open session makes exactly one executor
\* round trip, which carries the call's whole command list (get_ntp_servers
\* included, through get_config); cli() makes one round trip per command, as
\* many as the list has commands when none fails.
C9_OneRoundTrip ==
    /\ (/\ call.op \in {"get_facts", "get_interfaces", "get_interfaces_counters",
                        "get_environment", "get_lldp_neighbors",
                        "get_lldp_neighbors_detail", "get_arp_table", "get_ntp_servers",
                        "get_ntp_stats", "get_snmp_information", "get_optics", "get_config"}
        /\ device # None)
       => /\ Len(sent) = 1
          /\ Len(sent[1].commands) =
               (CASE call.op = "get_facts" -> 3
                  [] call.op = "get_snmp_information" -> 4
                  [] call.op \in {"get_interfaces", "get_interfaces_counters",
                                  "get_ntp_servers", "get_config"} -> 2
                  [] OTHER -> 1)
    /\ (/\ call.op = "cli"
        /\ call.arg.type = "list"
        /\ device # None
        /\ \A i \in 1..Len(call.arg.items) : call.react[i].kind = "ok")
       => /\ Len(sent) = Len(call.arg.items)
          /\ \A i \in 1..Len(sent) : Len(sent[i].commands) = 1

\* C9 witness: get_ntp_servers returned a non-empty server map after the one
\* round trip of get_config.
C9_Witness ==
    /\ call.op = "get_ntp_servers"
    /\ device # None
    /\ outcome.kind = "return"
    /\ DOMAIN outcome.value # {}
    /\ Len(sent) = 1
    /\ sent[1].commands = <<"#", "show running-config">>

\* C10: for every interface of the status payload get_interfaces sets is_up
\* iff rx starts with "up", and is_enabled = false iff the interface is not up
\* and rx contains "shutdown"; so no interface is reported up and disabled.
C10_UpAndEnabled ==
    (call.op = "get_interfaces" /\ outcome.kind = "return")
    => /\ DOMAIN outcome.value = DOMAIN call.react.output[1]
       /\ \A i \in DOMAIN outcome.value :
            LET rx == call.react.output[1][i].rx
                up == Len(rx) >= 2 /\ rx[1] = "u" /\ rx[2] = "p"
                shut == \E k \in 1..Len(rx) :
                          /\ k + 7 <= Len(rx)
                          /\ <<rx[k], rx[k + 1], rx[k + 2], rx[k + 3], rx[k + 4], rx[k + 5],
                               rx[k + 6], rx[k + 7]>>
                                = <<"s", "h", "u", "t", "d", "o", "w", "n">>
            IN /\ outcome.value[i].is_up = up
               /\ (outcome.value[i].is_enabled = FALSE) <=> (~up /\ shut)
               /\ ~(outcome.value[i].is_up /\ ~outcome.value[i].is_enabled)

\* C10 witness: get_interfaces returned for a payload with an interface whose
\* rx is "up (shutdown)", reported up and enabled, and one whose rx is
\* "down (shutdown)", reported down and disabled.
C10_Witness ==
    /\ call.op = "get_interfaces"
    /\ outcome.kind = "return"
    /\ \E i, j \in DOMAIN outcome.value :
         /\ call.react.output[1][i].rx
              = <<"u", "p", " ", "(", "s", "h", "u", "t", "d", "o", "w", "n", ")">>
         /\ outcome.value[i].is_up
         /\ outcome.value[i].is_enabled
         /\ call.react.output[1][j].rx
              = <<"d", "o", "w", "n", " ", "(", "s", "h", "u", "t", "d", "o", "w", "n", ")">>
         /\ ~outcome.value[j].is_up
         /\ ~outcome.value[j].is_enabled

C12_ErrorsFromTx ==
    (call.op = "get_interfaces_counters" /\ outcome.kind = "return")
    => LET counters == call.react.output[1].interfaces
           errors == call.react.output[2].interfaces
       IN /\ DOMAIN outcome.value = DOMAIN counters
          /\ \A i \in DOMAIN counters :
               /\ outcome.value[i].rx_errors = outcome.value[i].tx_errors
               /\ i \in DOMAIN errors => outcome.value[i].tx_errors = errors[i].tx
               /\ i \notin DOMAIN errors => outcome.value[i].tx_errors = -1

\* C12 witness: a returned call with an interface whose errors entry has
\* different tx and rx, both results being its tx, and an interface without
\* errors entry, both results being -1.
C12_Witness ==
    /\ call.op = "get_interfaces_counters"
    /\ outcome.kind = "return"
    /\ \E i, j \in DOMAIN outcome.value :
         LET errors == call.react.output[2].interfaces
         IN /\ i \in DOMAIN errors
            /\ errors[i].tx # errors[i].rx
            /\ outcome.value[i].rx_errors = errors[i].tx
            /\ j \notin DOMAIN errors
            /\ outcome.value[j].tx_errors = -1
            /\ outcome.value[j].rx_errors = -1

=============================================================================
